---- MODULE Spec2Model ----
(***************************************************************************)
(* A model of the actor runtime: Message (include/message.h), Actor        *)
(* (src/actor.cpp), the four schedulers (src/scheduler.cpp) and EventLoop  *)
(* (src/event_loop.cpp).                                                   *)
(*                                                                         *)
(* Every operation of Actor and EventLoop is an operator on a "world"      *)
(* record (the registry, every actor's state_ and message_queue_), because *)
(* the operations nest: process_next_message runs a handler, the handler   *)
(* calls send, send calls deliver_message, deliver_message calls receive.  *)
(* The actions apply these operators to the current world.                 *)
(***************************************************************************)
EXTENDS Integers, Sequences, FiniteSets, TLC

VARIABLES
    actors,          \* EventLoop::actors_ : the ids registered
    order,           \* iteration order of the unordered_map actors_
    state,           \* Actor::state_ of every actor object
    message_queue,   \* Actor::message_queue_ of every actor object
    running,         \* EventLoop::running_
    scheduler,       \* the class of EventLoop::scheduler_
    current_index,   \* RoundRobinScheduler::current_index_
    last_scheduled,  \* FairScheduler::last_scheduled_, as the age of each stamp
    runPc,           \* where the thread executing EventLoop::run() stands
    stopCalled,      \* history: EventLoop::stop() has been called
    accepted,        \* history: messages receive() has pushed, per actor (mod SerialMod)
    processed,       \* history: messages process_next_message has popped, per actor (mod SerialMod)
    handed,          \* history: serial of the message last handed on by process_next_message
    waiting,         \* history: how long each candidate of the Fair scheduler has gone unselected
    calls,           \* history: the latest calls of next_actor with one candidate list
    pushing,         \* the message_queue_.push() an external thread is executing, if any
    popping          \* the actor whose message_queue_ the loop's thread is popping from, if any

vars == <<actors, order, state, message_queue, running, scheduler, current_index,
          last_scheduled, runPc, stopCalled, accepted, processed, handed, waiting, calls,
          pushing, popping>>

----------------------------------------------------------------------------
(* Bounds of the model *)

\* Most messages the driver puts in flight at one time.
MaxMsgs == 2

\* FairScheduler::max_starvation_time_, in clock ticks.
MaxStarvation == 1

\* Serial numbers are kept modulo SerialMod, which exceeds every queue length.
SerialMod == MaxMsgs + 2

----------------------------------------------------------------------------
(* Message *)

LOW == 0
NORMAL == 1
HIGH == 2
CRITICAL == 3

Priorities == {LOW, NORMAL, HIGH, CRITICAL}

\* The actor objects of the model; an id is the actor's get_id().
Actors == {"a1", "a2", "a3"}

\* A sender that is no actor (the tests use "sender"), and an id nobody has.
ExternalSender == "sender"
UnknownId == "nobody"

\* Message::Message. created_at_ is never read by the modelled code and is left
\* out; serial is a history field stamped by receive.
Message(type, sender_id, target_id, payload, priority) ==
    [type |-> type, sender_id |-> sender_id, target_id |-> target_id,
     payload |-> payload, priority |-> priority, serial |-> 0]

\* The default argument of the constructor.
DefaultPriority == NORMAL

----------------------------------------------------------------------------
(* Actor *)

States == {"CREATED", "INITIALIZED", "RUNNING", "STOPPING", "STOPPED"}

\* No message handed on yet.
NoSerial == SerialMod

World ==
    [actors |-> actors, order |-> order, state |-> state,
     message_queue |-> message_queue, accepted |-> accepted,
     processed |-> processed, handed |-> handed]

set_state(w, a, new_state) == [w EXCEPT !.state[a] = new_state]

has_messages(w, a) == w.message_queue[a] # <<>>

is_running(w, a) == w.state[a] = "RUNNING"

\* initialize() that does not ask for the actor to be new.
initialize_unguarded(w, a) == set_state(w, a, "INITIALIZED")

initialize(w, a) ==
    IF w.state[a] # "CREATED" THEN w ELSE set_state(w, a, "INITIALIZED")

\* start() that does not ask for initialize() to have been called.
start_unguarded(w, a) ==
    IF w.state[a] \notin {"CREATED", "INITIALIZED"} THEN w ELSE set_state(w, a, "RUNNING")

start(w, a) ==
    IF w.state[a] # "INITIALIZED" THEN w ELSE set_state(w, a, "RUNNING")

\* stop() that leaves the last step to process_next_message in every case.
stop_without_collapse(w, a) ==
    IF w.state[a] = "STOPPED" \/ w.state[a] = "STOPPING" THEN w
    ELSE set_state(w, a, "STOPPING")

stop(w, a) ==
    IF w.state[a] = "STOPPED" \/ w.state[a] = "STOPPING" THEN w
    ELSE LET w1 == set_state(w, a, "STOPPING")
         IN  IF ~has_messages(w1, a) THEN set_state(w1, a, "STOPPED") ELSE w1

\* stop_immediately() that forgets to empty the mailbox.
stop_immediately_keeps_queue(w, a) == set_state(w, a, "STOPPED")

stop_immediately(w, a) ==
    set_state([w EXCEPT !.message_queue[a] = <<>>], a, "STOPPED")

\* receive() that turns messages away only once the actor is STOPPED.
AcceptsUnlessStopped(s) == s # "STOPPED"

\* The state test of receive.
Accepts(s) == s = "RUNNING" \/ s = "STOPPING"

receive(w, a, message) ==
    IF ~Accepts(w.state[a]) THEN w
    ELSE [w EXCEPT
            !.message_queue[a] = Append(@, [message EXCEPT !.serial = w.accepted[a]]),
            !.accepted[a] = (@ + 1) % SerialMod]

----------------------------------------------------------------------------
(* EventLoop: registry and delivery *)

find_actor(w, actor_id) == IF actor_id \in w.actors THEN actor_id ELSE UnknownId

\* Mutant: deliver_message takes receive's test for its own.
DeliverToAccepting(w, a) == Accepts(w.state[a])

\* The test deliver_message makes on the actor it found.
DeliverTo(w, a) == is_running(w, a)

deliver_message(w, message) ==
    LET target_actor == find_actor(w, message.target_id)
    IN  IF target_actor # UnknownId
        THEN IF DeliverTo(w, target_actor)
             THEN receive(w, target_actor, message)
             ELSE w
        ELSE w

\* Actor::send: the message handed to deliver_message.
SendMessage(id, target_actor_id, message) ==
    LET m1 == IF message.sender_id = ""
              THEN Message(message.type, id, target_actor_id, message.payload,
                           DefaultPriority)
              ELSE message
    IN  IF m1.target_id # target_actor_id
        THEN Message(m1.type, m1.sender_id, target_actor_id, m1.payload,
                     DefaultPriority)
        ELSE m1

send(w, id, target_actor_id, message) ==
    deliver_message(w, SendMessage(id, target_actor_id, message))

----------------------------------------------------------------------------
(* Handlers: what the application registers with register_handler *)

\* "test": TestActor::handle_test, which answers when the payload says "reply".
\* "ping": a handler that always answers its sender, so that the actors keep
\*         generating work for one another.
\* "halt": a handler that calls stop() on its own actor.
HandledTypes == {"test", "ping", "halt"}

\* handle_test with an answer that asks for an answer in its turn.
handle_test_echo(w, a, msg) ==
    IF msg.payload
    THEN send(w, a, msg.sender_id,
              Message("test", a, msg.sender_id, TRUE, DefaultPriority))
    ELSE w

handle_test(w, a, msg) ==
    IF msg.payload
    THEN send(w, a, msg.sender_id,
              Message("test", a, msg.sender_id, FALSE, DefaultPriority))
    ELSE w

handle_ping(w, a, msg) ==
    send(w, a, msg.sender_id,
         Message("ping", a, msg.sender_id, FALSE, DefaultPriority))

handle_halt(w, a, msg) == stop(w, a)

Handler(w, a, msg) ==
    IF msg.type = "test" THEN handle_test(w, a, msg)
    ELSE IF msg.type = "ping" THEN handle_ping(w, a, msg)
    ELSE handle_halt(w, a, msg)

\* The scan of Actor::peek_highest_priority_message: the place of the first
\* message of greatest priority.
RECURSIVE PeekFrom(_, _, _)
PeekFrom(q, best, i) ==
    IF i > Len(q) THEN best
    ELSE PeekFrom(q, IF q[i].priority > q[best].priority THEN i ELSE best, i + 1)

\* Mutant: process_next_message takes the message of greatest priority.
HighestPriorityIndex(q) == PeekFrom(q, 1, 2)

\* front() and pop() of process_next_message: which message leaves the queue.
FrontIndex(q) == 1

RemoveAt(q, i) == SubSeq(q, 1, i - 1) \o SubSeq(q, i + 1, Len(q))

\* Mutant: process_next_message forgets to finish a stop.
FinishStoppingForgotten(w, a) == w

\* The last lines of process_next_message: a STOPPING actor whose queue is
\* empty finishes stopping.
FinishStopping(w, a) ==
    IF w.state[a] = "STOPPING" /\ w.message_queue[a] = <<>>
    THEN set_state(w, a, "STOPPED")
    ELSE w

process_next_message(w, a) ==
    IF w.state[a] = "STOPPED" THEN w
    ELSE IF w.message_queue[a] = <<>>
    THEN IF w.state[a] = "STOPPING" THEN set_state(w, a, "STOPPED") ELSE w
    ELSE LET i       == FrontIndex(w.message_queue[a])
             message == w.message_queue[a][i]
             w1      == [w EXCEPT !.message_queue[a] = RemoveAt(@, i),
                                  !.processed[a] = (@ + 1) % SerialMod,
                                  !.handed[a] = message.serial]
             w2      == IF message.type \in HandledTypes
                        THEN Handler(w1, a, message)
                        ELSE w1
         IN  FinishStopping(w2, a)

----------------------------------------------------------------------------
(* EventLoop: the registry *)

\* All orders in which an unordered_map holding the ids S may iterate.
Orders(S) ==
    {o \in [1..Cardinality(S) -> S] : \A i, j \in 1..Cardinality(S) : o[i] = o[j] => i = j}

\* The order left when an element is erased: the others keep their places.
Erase(o, id) == SelectSeq(o, LAMBDA x : x # id)

\* The bootstrap without its second branch: an actor somebody has initialized
\* already is left as it is.
Bootstrap_created_only(w, a) ==
    IF w.state[a] = "CREATED" THEN start(initialize(w, a), a) ELSE w

\* run() and register_actor: an actor not yet RUNNING is brought there.
Bootstrap(w, a) ==
    IF w.state[a] = "CREATED" THEN start(initialize(w, a), a)
    ELSE IF w.state[a] = "INITIALIZED" THEN start(w, a)
    ELSE w

\* register_actor(actor). o is the iteration order of actors_ after the
\* insertion; an insertion may rehash, so any order of the new key set can
\* follow. Assigning to a key already present moves nothing.
register_actor(w, a, o, is_loop_running) ==
    LET w1 == [w EXCEPT !.actors = @ \cup {a},
                        !.order = IF a \in w.actors THEN @ ELSE o]
    IN  IF is_loop_running THEN Bootstrap(w1, a) ELSE w1

\* Mutant: remove_actor also stops an actor that is draining.
StopsOnRemoveDraining(w, a) == Accepts(w.state[a])

\* The test remove_actor makes before it stops the actor.
StopsOnRemove(w, a) == is_running(w, a)

remove_actor(w, actor_id) ==
    IF actor_id \in w.actors
    THEN LET w1 == IF StopsOnRemove(w, actor_id)
                   THEN stop_immediately(w, actor_id)
                   ELSE w
         IN  [w1 EXCEPT !.actors = @ \ {actor_id}, !.order = Erase(@, actor_id)]
    ELSE w

\* The test of has_work and of process_one_cycle on one actor.
Eligible(w, a) ==
    (is_running(w, a) \/ w.state[a] = "STOPPING") /\ has_messages(w, a)

\* has_work that returns what it finds at the first actor it visits.
has_work_first_only(w) == w.order # <<>> /\ Eligible(w, w.order[1])

has_work(w) == \E a \in w.actors : Eligible(w, a)

\* process_one_cycle: the actors collected, in the map's iteration order.
active_actors(w) == SelectSeq(w.order, LAMBDA a : Eligible(w, a))

----------------------------------------------------------------------------
(* Schedulers. next_actor returns the actor chosen and the scheduler's new   *)
(* fields; actor = UnknownId stands for nullptr.                             *)

SchedulerKinds == {"RoundRobin", "Priority", "MessagePriority", "Fair"}

Never == -1

Choice(a, idx, last) == [actor |-> a, current_index |-> idx, last_scheduled |-> last]

\* RoundRobin that returns nullptr, where the code starts again from the
\* first actor, when the list has become shorter than its index.
RoundRobin_no_wrap(list, idx, last) ==
    IF list = <<>> \/ idx >= Len(list) THEN Choice(UnknownId, idx, last)
    ELSE Choice(list[idx + 1], (idx + 1) % Len(list), last)

\* RoundRobin that, when it starts again from the first actor, forgets to move
\* its index on.
RoundRobin_reset_stays(list, idx, last) ==
    IF list = <<>> THEN Choice(UnknownId, idx, last)
    ELSE IF idx >= Len(list) THEN Choice(list[1], 0, last)
    ELSE Choice(list[idx + 1], (idx + 1) % Len(list), last)

RoundRobin_next_actor(list, idx, last) ==
    IF list = <<>> THEN Choice(UnknownId, idx, last)
    ELSE LET i == IF idx >= Len(list) THEN 0 ELSE idx
         IN  Choice(list[i + 1], (i + 1) % Len(list), last)

\* std::max_element: the first element no later element exceeds strictly.
RECURSIVE MaxElementFrom(_, _, _, _)
MaxElementFrom(list, key(_), best, i) ==
    IF i > Len(list) THEN best
    ELSE MaxElementFrom(list, key,
                        IF key(list[best]) < key(list[i]) THEN i ELSE best, i + 1)

max_element(list, key(_)) == list[MaxElementFrom(list, key, 1, 2)]

default_priority(w, a) == IF has_messages(w, a) THEN 1 ELSE 0

Priority_next_actor(w, list, idx, last) ==
    IF list = <<>> THEN Choice(UnknownId, idx, last)
    ELSE Choice(max_element(list, LAMBDA a : default_priority(w, a)), idx, last)

\* The scheduler looking at the message in front, as Actor::peek_next_message
\* does, where the code looks for the message of greatest priority.
peek_front_message(w, a) ==
    IF w.message_queue[a] = <<>>
    THEN Message("empty", "", "", FALSE, DefaultPriority)
    ELSE w.message_queue[a][1]

\* Actor::peek_highest_priority_message.
peek_highest_priority_message(w, a) ==
    IF w.message_queue[a] = <<>>
    THEN Message("empty", "", "", FALSE, DefaultPriority)
    ELSE w.message_queue[a][PeekFrom(w.message_queue[a], 1, 2)]

MessagePriority_next_actor(w, list, idx, last) ==
    IF list = <<>> THEN Choice(UnknownId, idx, last)
    ELSE Choice(max_element(list,
                    LAMBDA a : peek_highest_priority_message(w, a).priority),
                idx, last)

\* FairScheduler keeps time points; the model keeps, for each stamp, how long
\* ago it was made (now - it->second), cut off at MaxStarvation + 1: the code
\* compares a stamp's age with max_starvation_time_ and, when no candidate is
\* past it, the candidates' stamps with one another.
Older(age, d) ==
    IF age = Never THEN Never
    ELSE IF age + d > MaxStarvation THEN MaxStarvation + 1 ELSE age + d

\* The clock moved on by d since the previous call.
Elapse(last, d) == [a \in Actors |-> Older(last[a], d)]

\* The test of the first loop of FairScheduler::next_actor.
Starved(last, a) == last[a] = Never \/ last[a] > MaxStarvation

\* std::min_element on the stamps: the first candidate with the greatest age.
oldest_scheduled(list, last) ==
    max_element(list, LAMBDA a : IF last[a] = Never THEN MaxStarvation + 2 ELSE last[a])

\* The Fair scheduler without its second part: when no candidate is past the
\* threshold it returns nobody.
Fair_starved_only(list, idx, last) ==
    IF list = <<>> THEN Choice(UnknownId, idx, last)
    ELSE LET starved == SelectSeq(list, LAMBDA a : Starved(last, a))
         IN  IF starved # <<>>
             THEN Choice(starved[1], idx, [last EXCEPT ![starved[1]] = 0])
             ELSE Choice(UnknownId, idx, last)

Fair_next_actor(list, idx, last) ==
    IF list = <<>> THEN Choice(UnknownId, idx, last)
    ELSE LET starved == SelectSeq(list, LAMBDA a : Starved(last, a))
             a == IF starved # <<>> THEN starved[1] ELSE oldest_scheduled(list, last)
         IN  Choice(a, idx, [last EXCEPT ![a] = 0])

next_actor(kind, w, list, idx, last) ==
    IF kind = "RoundRobin" THEN RoundRobin_next_actor(list, idx, last)
    ELSE IF kind = "Priority" THEN Priority_next_actor(w, list, idx, last)
    ELSE IF kind = "MessagePriority" THEN MessagePriority_next_actor(w, list, idx, last)
    ELSE Fair_next_actor(list, idx, last)

----------------------------------------------------------------------------
(* EventLoop: one scheduling cycle and run() *)

Cycle(w, idx, last) == [w |-> w, current_index |-> idx, last_scheduled |-> last]

\* process_one_cycle that goes on to a second message of the actor chosen.
process_one_cycle_twice(w, kind, idx, last) ==
    LET list == active_actors(w)
    IN  IF list = <<>> THEN Cycle(w, idx, last)
        ELSE LET next == next_actor(kind, w, list, idx, last)
             IN  IF next.actor # UnknownId
                 THEN Cycle(process_next_message(process_next_message(w, next.actor),
                                                 next.actor),
                            next.current_index, next.last_scheduled)
                 ELSE Cycle(w, next.current_index, next.last_scheduled)

\* process_one_cycle. last holds the stamps as aged by the caller.
process_one_cycle(w, kind, idx, last) ==
    LET list == active_actors(w)
    IN  IF list = <<>> THEN Cycle(w, idx, last)
        ELSE LET next == next_actor(kind, w, list, idx, last)
             IN  IF next.actor # UnknownId
                 THEN Cycle(process_next_message(w, next.actor),
                            next.current_index, next.last_scheduled)
                 ELSE Cycle(w, next.current_index, next.last_scheduled)

\* The first loop of run(): every registered actor is bootstrapped.
RECURSIVE BootstrapAll(_, _)
BootstrapAll(w, o) ==
    IF o = <<>> THEN w ELSE BootstrapAll(Bootstrap(w, Head(o)), Tail(o))

\* The last loop of run(): every registered actor still RUNNING is told to stop.
RECURSIVE StopAll(_, _)
StopAll(w, o) ==
    IF o = <<>> THEN w
    ELSE StopAll(IF is_running(w, Head(o)) THEN stop(w, Head(o)) ELSE w, Tail(o))

\* The condition of run()'s while loop.
LoopCondition(w, is_loop_running) == is_loop_running /\ has_work(w)

----------------------------------------------------------------------------
(* Actions *)

Apply(w) ==
    /\ actors' = w.actors
    /\ order' = w.order
    /\ state' = w.state
    /\ message_queue' = w.message_queue
    /\ accepted' = w.accepted
    /\ processed' = w.processed
    /\ handed' = w.handed

loopVars == <<running, scheduler, current_index, last_scheduled, runPc, stopCalled,
              waiting, calls, pushing, popping>>

worldVars == <<actors, order, state, message_queue, accepted, processed, handed>>

\* Messages queued over all actor objects.
RECURSIVE SumLen(_)
SumLen(S) ==
    IF S = {} THEN 0
    ELSE LET a == CHOOSE x \in S : TRUE IN Len(message_queue[a]) + SumLen(S \ {a})

InFlight == SumLen(Actors)

Initialize(a) == Apply(initialize(World, a)) /\ UNCHANGED loopVars

Start(a) == Apply(start(World, a)) /\ UNCHANGED loopVars

Stop(a) == Apply(stop(World, a)) /\ UNCHANGED loopVars

StopImmediately(a) == Apply(stop_immediately(World, a)) /\ UNCHANGED loopVars

Receive(a, m) ==
    /\ InFlight < MaxMsgs
    /\ Apply(receive(World, a, m))
    /\ UNCHANGED loopVars

ProcessNextMessage(a) == Apply(process_next_message(World, a)) /\ UNCHANGED loopVars

RegisterActor(a) ==
    /\ \E o \in Orders(actors \cup {a}) : Apply(register_actor(World, a, o, running))
    /\ UNCHANGED loopVars

RemoveActor(id) == Apply(remove_actor(World, id)) /\ UNCHANGED loopVars

DeliverMessage(m) ==
    /\ InFlight < MaxMsgs
    /\ Apply(deliver_message(World, m))
    /\ UNCHANGED loopVars

\* Actor id calls send(target_actor_id, m) outside a handler.
Send(id, target_actor_id, m) ==
    /\ InFlight < MaxMsgs
    /\ Apply(send(World, id, target_actor_id, m))
    /\ UNCHANGED loopVars

\* No external thread is inside message_queue_.push().
NoPush == [actor |-> UnknownId]

\* No call of next_actor has been made yet.
NoCalls == [list |-> <<>>, picks |-> <<>>]

\* set_scheduler with a newly made scheduler. The driver swaps schedulers only
\* before it starts the loop, as the tests and the example do.
SetScheduler(kind) ==
    /\ runPc = "idle"
    /\ scheduler' = kind
    /\ current_index' = 0
    /\ last_scheduled' = [a \in Actors |-> Never]
    /\ waiting' = [a \in Actors |-> Never]
    /\ calls' = NoCalls
    /\ UNCHANGED <<worldVars, running, runPc, stopCalled, pushing, popping>>

\* EventLoop::stop().
LoopStop ==
    /\ running' = FALSE
    /\ stopCalled' = TRUE
    /\ UNCHANGED <<worldVars, scheduler, current_index, last_scheduled, runPc, waiting, calls, pushing, popping>>

\* The driver starts the thread that will execute run(); it does so once.
StartThread ==
    /\ runPc = "idle"
    /\ runPc' = "start"
    /\ UNCHANGED <<worldVars, running, scheduler, current_index, last_scheduled, stopCalled,
                   waiting, calls, pushing, popping>>

\* run(): running_ = true.
RunEnter ==
    /\ runPc = "start"
    /\ running' = TRUE
    /\ runPc' = "init"
    /\ UNCHANGED <<worldVars, scheduler, current_index, last_scheduled, stopCalled, waiting, calls, pushing, popping>>

RunBootstrap ==
    /\ runPc = "init"
    /\ Apply(BootstrapAll(World, order))
    /\ runPc' = "test"
    /\ UNCHANGED <<running, scheduler, current_index, last_scheduled, stopCalled, waiting, calls, pushing, popping>>

RunTest ==
    /\ runPc = "test"
    /\ runPc' = IF LoopCondition(World, running) THEN "cycle" ELSE "exit"
    /\ UNCHANGED <<worldVars, running, scheduler, current_index, last_scheduled, stopCalled,
                   waiting, calls, pushing, popping>>

\* For each candidate of a call of FairScheduler::next_actor made d after the
\* previous one: how long it has been a candidate of every call without being
\* selected, from its last selection or from the first of these calls.
Waited(w, kind, idx, last, d) ==
    LET list == active_actors(w)
        next == next_actor(kind, w, list, idx, Elapse(last, d))
    IN  [a \in Actors |->
            IF kind # "Fair" \/ ~(\E i \in 1..Len(list) : list[i] = a) THEN Never
            ELSE IF next.actor = a \/ waiting[a] = Never THEN 0
            ELSE Older(waiting[a], d)]

\* The last n elements of a sequence.
LastN(q, n) == IF Len(q) <= n THEN q ELSE SubSeq(q, Len(q) - n + 1, Len(q))

\* The record of the calls of next_actor after one more process_one_cycle: the
\* candidate list of the call and what the latest calls with that very list
\* returned, as many of them as the list has candidates. A cycle that finds no
\* candidate does not call the scheduler.
Called(w, kind, idx, last) ==
    LET list == active_actors(w)
        next == next_actor(kind, w, list, idx, last)
    IN  IF list = <<>> THEN calls
        ELSE IF list = calls.list
        THEN [list |-> list, picks |-> LastN(Append(calls.picks, next.actor), Len(list))]
        ELSE [list |-> list, picks |-> <<next.actor>>]

\* One process_one_cycle(); d is the time gone by since the scheduler was last
\* asked, which only the Fair scheduler reads.
RunCycle ==
    /\ runPc = "cycle"
    /\ \E d \in 0..(MaxStarvation + 1) :
          /\ scheduler # "Fair" => d = 0
          /\ LET c == process_one_cycle(World, scheduler, current_index,
                                        Elapse(last_scheduled, d))
             IN  /\ Apply(c.w)
                 /\ current_index' = c.current_index
                 /\ last_scheduled' = c.last_scheduled
                 /\ waiting' = Waited(World, scheduler, current_index, last_scheduled, d)
                 /\ calls' = Called(World, scheduler, current_index,
                                    Elapse(last_scheduled, d))
    /\ runPc' = "test"
    /\ UNCHANGED <<running, scheduler, stopCalled, pushing, popping>>

RunStopActors ==
    /\ runPc = "exit"
    /\ Apply(StopAll(World, order))
    /\ runPc' = "leave"
    /\ UNCHANGED <<running, scheduler, current_index, last_scheduled, stopCalled, waiting, calls, pushing, popping>>

\* run(): running_ = false, and return.
RunLeave ==
    /\ runPc = "leave"
    /\ running' = FALSE
    /\ runPc' = "done"
    /\ UNCHANGED <<worldVars, scheduler, current_index, last_scheduled, stopCalled, waiting, calls, pushing, popping>>

RunStep == RunEnter \/ RunBootstrap \/ RunTest \/ RunCycle \/ RunStopActors \/ RunLeave

RunPcs == {"idle", "start", "init", "test", "cycle", "pop", "exit", "leave", "done"}

\* A step of the thread that executes run(), seen through runPc alone: the
\* steps of RunStep are the steps that move runPc on from a value other than
\* "idle", and one of them is possible at every such value but "done".
RunAdvances == runPc \notin {"idle", "done"} /\ runPc' \in RunPcs /\ runPc' # runPc

\* The thread that executes run() is not held up for ever: the operating
\* system schedules it, and nothing in run() blocks.
LoopThreadRuns == WF_runPc(RunAdvances)

----------------------------------------------------------------------------
(* Spec: a driver that calls the operations of Actor and the registry and   *)
(* delivery operations of EventLoop in any order, on two actors. run() is   *)
(* not started.                                                             *)

InitWorld ==
    /\ actors = {}
    /\ order = <<>>
    /\ state = [a \in Actors |-> "CREATED"]
    /\ message_queue = [a \in Actors |-> <<>>]
    /\ accepted = [a \in Actors |-> 0]
    /\ processed = [a \in Actors |-> 0]
    /\ handed = [a \in Actors |-> NoSerial]

InitLoop ==
    /\ running = FALSE
    /\ scheduler = "RoundRobin"
    /\ current_index = 0
    /\ last_scheduled = [a \in Actors |-> Never]
    /\ runPc = "idle"
    /\ stopCalled = FALSE
    /\ waiting = [a \in Actors |-> Never]
    /\ calls = NoCalls
    /\ pushing = NoPush
    /\ popping = UnknownId

Init == InitWorld /\ InitLoop

Pair == {"a1", "a2"}

\* What the driver sends: a plain message, a request for a reply, and a
\* message of a type no handler is registered for.
DriverMessages(S) ==
    UNION {{Message("test", ExternalSender, t, FALSE, LOW),
            Message("other", ExternalSender, t, FALSE, NORMAL)}
           \cup {Message("test", s, t, TRUE, HIGH) : s \in S} : t \in S \cup {UnknownId}}

\* What the driver hands to receive() itself.
DirectMessage(a) == Message("test", ExternalSender, a, FALSE, CRITICAL)

Next ==
    \/ \E a \in Pair : Initialize(a)
    \/ \E a \in Pair : Start(a)
    \/ \E a \in Pair : Stop(a)
    \/ \E a \in Pair : StopImmediately(a)
    \/ \E a \in Pair : Receive(a, DirectMessage(a))
    \/ \E a \in Pair : ProcessNextMessage(a)
    \/ \E a \in Pair : RegisterActor(a)
    \/ \E id \in Pair \cup {UnknownId} : RemoveActor(id)
    \/ \E m \in DriverMessages(Pair) : DeliverMessage(m)

Spec == Init /\ [][Next]_vars

\* The operations of Actor alone, on actors no loop has registered: what the
\* unit tests of Actor do.
NextActor ==
    \/ \E a \in Pair : Initialize(a)
    \/ \E a \in Pair : Start(a)
    \/ \E a \in Pair : Stop(a)
    \/ \E a \in Pair : StopImmediately(a)
    \/ \E a \in Pair : Receive(a, DirectMessage(a))
    \/ \E a \in Pair : ProcessNextMessage(a)

SpecActor == Init /\ [][NextActor]_vars

----------------------------------------------------------------------------
(* The messages the drivers send *)

Plain(t) == Message("test", ExternalSender, t, FALSE, LOW)

Request(x, t) == Message("test", x, t, TRUE, HIGH)

Ping(x, t) == Message("ping", x, t, FALSE, NORMAL)

\* What the driver does before it starts the loop's thread.
Setup(A) == runPc = "idle" /\ A

----------------------------------------------------------------------------
(* SpecRun: the driver registers two actors, picks a scheduler and starts   *)
(* the thread that executes run(); it delivers messages and hands messages  *)
(* to receive() at any time, between the steps of the loop.                 *)

RunMessages(S) == UNION {{Plain(t)} \cup {Request(x, t) : x \in S \ {t}} : t \in S}

NextRun ==
    \/ \E a \in Pair : Setup(RegisterActor(a))
    \/ \E k \in SchedulerKinds : SetScheduler(k)
    \/ \E m \in RunMessages(Pair) : DeliverMessage(m)
    \/ \E a \in Pair : Receive(a, DirectMessage(a))
    \/ StartThread
    \/ RunStep

SpecRun == Init /\ [][NextRun]_vars

----------------------------------------------------------------------------
(* SpecQuiet: the driver sets two actors up as the tests do (register,      *)
(* initialize, start, deliver), picks a scheduler, starts the thread that   *)
(* executes run() and then leaves the loop alone. The thread, once started, *)
(* keeps taking its steps.                                                  *)

QuietMessages(S) ==
    UNION {{Plain(t), Ping(t, t)} \cup {Request(x, t) : x \in S \ {t}} : t \in S}

NextQuiet ==
    \/ \E a \in Pair : Setup(RegisterActor(a))
    \/ \E a \in Pair : Setup(Initialize(a))
    \/ \E a \in Pair : Setup(Start(a))
    \/ \E k \in SchedulerKinds : SetScheduler(k)
    \/ \E m \in QuietMessages(Pair) : Setup(DeliverMessage(m))
    \/ StartThread
    \/ RunStep

SpecQuiet == Init /\ [][NextQuiet]_vars /\ LoopThreadRuns

----------------------------------------------------------------------------
(* SpecStop: as SpecQuiet, and once the thread is started the driver may    *)
(* call EventLoop::stop(), Actor::stop() and Actor::stop_immediately() at   *)
(* any time.                                                                *)

StopMessages(S) == UNION {{Plain(t)} \cup {Ping(x, t) : x \in S \ {t}} : t \in S}

\* EventLoop::stop() on a loop whose thread has been started.
StopLoop == runPc # "idle" /\ LoopStop

StopActor(a) == runPc # "idle" /\ Stop(a)

\* Actor::stop_immediately() on an actor of a loop whose thread has been started.
StopActorImmediately(a) == runPc # "idle" /\ StopImmediately(a)

NextStop ==
    \/ \E a \in Pair : Setup(RegisterActor(a))
    \/ \E a \in Pair : Setup(Initialize(a))
    \/ \E a \in Pair : Setup(Start(a))
    \/ \E k \in SchedulerKinds : SetScheduler(k)
    \/ \E m \in StopMessages(Pair) : Setup(DeliverMessage(m))
    \/ \E a \in Pair : StopActor(a)
    \/ \E a \in Pair : StopActorImmediately(a)
    \/ StartThread
    \/ StopLoop
    \/ RunStep

SpecStop == Init /\ [][NextStop]_vars /\ LoopThreadRuns

----------------------------------------------------------------------------
(* SpecDrain: the scenario of test_schedulers. N actors are registered and  *)
(* RUNNING, K "test" messages that ask for no reply are queued in each, the *)
(* scheduler is a new RoundRobinScheduler and the thread that executes      *)
(* run() has just been started. Nobody calls stop().                        *)

MaxK == 2

\* K deliveries of Plain(a) to a new RUNNING actor a.
Seeded(a, K) == [i \in 1..K |-> [Plain(a) EXCEPT !.serial = i - 1]]

InitDrain ==
    \E S \in (SUBSET Actors) \ {{}} : \E o \in Orders(S) : \E K \in 1..MaxK :
        /\ actors = S
        /\ order = o
        /\ state = [a \in Actors |-> IF a \in S THEN "RUNNING" ELSE "CREATED"]
        /\ message_queue = [a \in Actors |-> IF a \in S THEN Seeded(a, K) ELSE <<>>]
        /\ accepted = [a \in Actors |-> IF a \in S THEN K ELSE 0]
        /\ processed = [a \in Actors |-> 0]
        /\ handed = [a \in Actors |-> NoSerial]
        /\ running = FALSE
        /\ scheduler = "RoundRobin"
        /\ current_index = 0
        /\ last_scheduled = [a \in Actors |-> Never]
        /\ runPc = "start"
        /\ stopCalled = FALSE
        /\ waiting = [a \in Actors |-> Never]
        /\ calls = NoCalls
        /\ pushing = NoPush
        /\ popping = UnknownId

NextDrain == RunStep

SpecDrain == InitDrain /\ [][NextDrain]_vars /\ LoopThreadRuns

----------------------------------------------------------------------------
(* SpecRing: the loop calls the RoundRobin scheduler with one candidate list *)
(* again and again. Every registered actor is RUNNING and holds a ping of    *)
(* its own, which its handler answers to itself, so that it is a candidate   *)
(* of every cycle; the scheduler's index is whatever earlier calls left.     *)
(* The driver may call EventLoop::stop() at any time.                        *)

MaxIndex == 3

\* One delivery of Ping(a, a) to a new RUNNING actor a.
SelfPing(a) == <<Ping(a, a)>>

InitRing ==
    \E S \in (SUBSET Actors) \ {{}} : \E o \in Orders(S) : \E i \in 0..MaxIndex :
        /\ actors = S
        /\ order = o
        /\ state = [a \in Actors |-> IF a \in S THEN "RUNNING" ELSE "CREATED"]
        /\ message_queue = [a \in Actors |-> IF a \in S THEN SelfPing(a) ELSE <<>>]
        /\ accepted = [a \in Actors |-> IF a \in S THEN 1 ELSE 0]
        /\ processed = [a \in Actors |-> 0]
        /\ handed = [a \in Actors |-> NoSerial]
        /\ running = FALSE
        /\ scheduler = "RoundRobin"
        /\ current_index = i
        /\ last_scheduled = [a \in Actors |-> Never]
        /\ runPc = "start"
        /\ stopCalled = FALSE
        /\ waiting = [a \in Actors |-> Never]
        /\ calls = NoCalls
        /\ pushing = NoPush
        /\ popping = UnknownId

NextRing == RunStep \/ StopLoop

SpecRing == InitRing /\ [][NextRing]_vars

----------------------------------------------------------------------------
(* SpecPick: run() on a registry of RUNNING actors whose mailboxes hold      *)
(* "test" messages of several priorities that ask for no reply, under each   *)
(* of the four schedulers. Nobody calls stop().                              *)

MaxSeed == 2

SeedPriorities == {LOW, HIGH}

\* The priorities of the messages of one mailbox, oldest first.
Seeds == UNION {[1..n -> SeedPriorities] : n \in 0..MaxSeed}

\* Deliveries of "test" messages with priorities p to a new RUNNING actor a.
SeededWith(a, p) ==
    [i \in 1..Len(p) |->
        [Message("test", ExternalSender, a, FALSE, p[i]) EXCEPT !.serial = i - 1]]

InitPick ==
    \E S \in (SUBSET Actors) \ {{}} : \E o \in Orders(S) : \E k \in SchedulerKinds :
    \E p \in [S -> Seeds] :
        /\ actors = S
        /\ order = o
        /\ state = [a \in Actors |-> IF a \in S THEN "RUNNING" ELSE "CREATED"]
        /\ message_queue = [a \in Actors |-> IF a \in S THEN SeededWith(a, p[a]) ELSE <<>>]
        /\ accepted = [a \in Actors |-> IF a \in S THEN Len(p[a]) ELSE 0]
        /\ processed = [a \in Actors |-> 0]
        /\ handed = [a \in Actors |-> NoSerial]
        /\ running = FALSE
        /\ scheduler = k
        /\ current_index = 0
        /\ last_scheduled = [a \in Actors |-> Never]
        /\ runPc = "start"
        /\ stopCalled = FALSE
        /\ waiting = [a \in Actors |-> Never]
        /\ calls = NoCalls
        /\ pushing = NoPush
        /\ popping = UnknownId

NextPick == RunStep

SpecPick == InitPick /\ [][NextPick]_vars

----------------------------------------------------------------------------
(* SpecSend: actors of a live event loop call send() with messages built    *)
(* with any sender (none, the caller, somebody else), any target (the one   *)
(* passed to send, another one) and several priorities; the messages that   *)
(* arrive are processed one by one. run() is not started.                   *)

\* The messages actor x may pass to send(t, ...).
SendMessages(x, t) ==
    {Message("test", s, g, FALSE, p) :
        s \in {"", x, ExternalSender}, g \in {t, UnknownId}, p \in {NORMAL, HIGH}}

NextSend ==
    \/ \E a \in Pair : RegisterActor(a)
    \/ \E a \in Pair : Initialize(a)
    \/ \E a \in Pair : Start(a)
    \/ \E a \in Pair : Stop(a)
    \/ \E x \in Pair : \E t \in Pair \cup {UnknownId} :
          \E m \in SendMessages(x, t) : Send(x, t, m)
    \/ \E a \in Pair : ProcessNextMessage(a)

SpecSend == Init /\ [][NextSend]_vars

----------------------------------------------------------------------------
(* SpecRace: deliver_message() on the driver's thread while run() executes   *)
(* on its own. Neither Actor nor EventLoop holds a lock, so the steps of the *)
(* two threads interleave inside the calls: deliver_message() and            *)
(* process_one_cycle() are taken in two steps each, the entry into the       *)
(* access to message_queue_ and its end. Two accesses to one std::queue that *)
(* overlap are a data race, whose outcome C++ leaves undefined: the push may *)
(* take effect, be lost, or take effect twice.                               *)

\* message_queue_.push(message) that had the mailbox for itself.
push(w, a, message) ==
    [w EXCEPT
        !.message_queue[a] = Append(@, [message EXCEPT !.serial = w.accepted[a]]),
        !.accepted[a] = (@ + 1) % SerialMod]

\* message_queue_.push(message) whose effect on the queue is lost.
push_lost(w, a, message) ==
    [w EXCEPT !.accepted[a] = (@ + 1) % SerialMod]

\* message_queue_.push(message) whose effect on the queue is seen twice.
push_twice(w, a, message) ==
    [w EXCEPT
        !.message_queue[a] =
            Append(Append(@, [message EXCEPT !.serial = w.accepted[a]]),
                   [message EXCEPT !.serial = w.accepted[a]]),
        !.accepted[a] = (@ + 1) % SerialMod]

\* What a push may leave behind.
push_outcomes(w, a, message, raced) ==
    IF raced
    THEN {push(w, a, message), push_lost(w, a, message), push_twice(w, a, message)}
    ELSE {push(w, a, message)}

\* deliver_message(m) up to the push: the target is found and RUNNING, receive()
\* has found the state acceptable, and the thread enters message_queue_.push().
\* The driver delivers at most MaxMsgs messages to an actor.
DeliverBegin(m) ==
    /\ pushing = NoPush
    /\ InFlight < MaxMsgs
    /\ LET target_actor == find_actor(World, m.target_id)
       IN  /\ target_actor # UnknownId
           /\ DeliverTo(World, target_actor)
           /\ Accepts(state[target_actor])
           /\ accepted[target_actor] < MaxMsgs
           /\ pushing' = [actor |-> target_actor, message |-> m,
                          raced |-> popping = target_actor]
    /\ UNCHANGED <<worldVars, running, scheduler, current_index, last_scheduled, runPc,
                   stopCalled, waiting, calls, popping>>

\* The push ends and deliver_message returns.
DeliverEnd ==
    /\ pushing # NoPush
    /\ \E w \in push_outcomes(World, pushing.actor, pushing.message, pushing.raced) :
          Apply(w)
    /\ pushing' = NoPush
    /\ UNCHANGED <<running, scheduler, current_index, last_scheduled, runPc,
                   stopCalled, waiting, calls, popping>>

\* process_one_cycle() up to the actor's mailbox: the candidates are collected,
\* the scheduler has chosen, and the thread enters process_next_message().
PopBegin ==
    /\ runPc = "cycle"
    /\ LET list == active_actors(World)
           next == next_actor(scheduler, World, list, current_index, last_scheduled)
       IN  IF list = <<>> \/ next.actor = UnknownId
           THEN /\ runPc' = "test"
                /\ UNCHANGED <<current_index, last_scheduled, waiting, calls, pushing,
                               popping>>
           ELSE /\ runPc' = "pop"
                /\ popping' = next.actor
                /\ current_index' = next.current_index
                /\ last_scheduled' = next.last_scheduled
                /\ waiting' = Waited(World, scheduler, current_index, last_scheduled, 0)
                /\ calls' = Called(World, scheduler, current_index, last_scheduled)
                /\ pushing' = IF pushing.actor = next.actor
                              THEN [pushing EXCEPT !.raced = TRUE]
                              ELSE pushing
    /\ UNCHANGED <<worldVars, running, scheduler, stopCalled>>

\* process_next_message() ends and process_one_cycle() returns.
PopEnd ==
    /\ runPc = "pop"
    /\ Apply(process_next_message(World, popping))
    /\ popping' = UnknownId
    /\ runPc' = "test"
    /\ UNCHANGED <<running, scheduler, current_index, last_scheduled, stopCalled,
                   waiting, calls, pushing>>

NextRace ==
    \/ \E a \in Pair : Setup(RegisterActor(a))
    \/ \E a \in Pair : Setup(Initialize(a))
    \/ \E a \in Pair : Setup(Start(a))
    \/ \E a \in Pair : DeliverBegin(Plain(a))
    \/ DeliverEnd
    \/ StartThread
    \/ RunEnter
    \/ RunBootstrap
    \/ RunTest
    \/ PopBegin
    \/ PopEnd
    \/ RunStopActors
    \/ RunLeave

SpecRace == Init /\ [][NextRace]_vars

----------------------------------------------------------------------------
(* SpecJoin: actors join a loop at any time. The driver registers actors it  *)
(* has just made, or made and initialized, before it starts the thread that  *)
(* executes run() and afterwards; it never calls initialize() or start() on  *)
(* a registered actor and never stops an actor. It delivers messages and may *)
(* call EventLoop::stop() at any time.                                       *)

\* initialize() called by the driver on an actor it has not registered yet.
PrepareActor(a) == a \notin actors /\ Initialize(a)

NextJoin ==
    \/ \E a \in Pair : PrepareActor(a)
    \/ \E a \in Pair : RegisterActor(a)
    \/ \E m \in RunMessages(Pair) : DeliverMessage(m)
    \/ StartThread
    \/ StopLoop
    \/ RunStep

SpecJoin == Init /\ [][NextJoin]_vars

----------------------------------------------------------------------------
(* SpecTurn: run() with the RoundRobin scheduler on a registry of RUNNING    *)
(* actors that keep answering one another. Each mailbox is empty or holds    *)
(* one ping, from the actor itself or from another one; the handler answers  *)
(* the sender, so that mailboxes empty and refill and the candidate list     *)
(* changes from cycle to cycle. Nobody calls stop(); the thread keeps taking *)
(* its steps.                                                                *)

\* What one delivery at most may have left in the mailbox of a.
PingSeeds(S, a) == {<<>>} \cup {<<Ping(x, a)>> : x \in S}

InitTurn ==
    \E S \in (SUBSET Actors) \ {{}} : \E o \in Orders(S) :
    \E q \in [S -> UNION {PingSeeds(S, a) : a \in S}] :
        /\ \A a \in S : q[a] \in PingSeeds(S, a)
        /\ actors = S
        /\ order = o
        /\ state = [a \in Actors |-> IF a \in S THEN "RUNNING" ELSE "CREATED"]
        /\ message_queue = [a \in Actors |-> IF a \in S THEN q[a] ELSE <<>>]
        /\ accepted = [a \in Actors |-> IF a \in S THEN Len(q[a]) ELSE 0]
        /\ processed = [a \in Actors |-> 0]
        /\ handed = [a \in Actors |-> NoSerial]
        /\ running = FALSE
        /\ scheduler = "RoundRobin"
        /\ current_index = 0
        /\ last_scheduled = [a \in Actors |-> Never]
        /\ runPc = "start"
        /\ stopCalled = FALSE
        /\ waiting = [a \in Actors |-> Never]
        /\ calls = NoCalls
        /\ pushing = NoPush
        /\ popping = UnknownId

NextTurn == RunStep

SpecTurn == InitTurn /\ [][NextTurn]_vars /\ LoopThreadRuns

----------------------------------------------------------------------------
(* SpecSched: the schedulers called on their own, as a unit test of them     *)
(* would. Three RUNNING actors hold "test" messages of several priorities;   *)
(* the driver picks a scheduler and calls next_actor with any list of the    *)
(* actors, the empty one included, longer or shorter than the list of the    *)
(* call before. run() is not started.                                        *)

\* The priorities of the messages of one mailbox, oldest first.
SchedSeeds == {<<>>, <<LOW>>, <<LOW, HIGH>>}

InitSched ==
    \E p \in [Actors -> SchedSeeds] :
        /\ actors = Actors
        /\ order = <<"a1", "a2", "a3">>
        /\ state = [a \in Actors |-> "RUNNING"]
        /\ message_queue = [a \in Actors |-> SeededWith(a, p[a])]
        /\ accepted = [a \in Actors |-> Len(p[a])]
        /\ processed = [a \in Actors |-> 0]
        /\ handed = [a \in Actors |-> NoSerial]
        /\ InitLoop

\* The vectors of actors next_actor may be passed.
CandidateLists == UNION {Orders(S) : S \in SUBSET Actors}

\* scheduler_->next_actor(list), called d after the call before; calls keeps
\* the list, what the call returned, and the index RoundRobin had before it.
CallNextActor(list) ==
    /\ runPc = "idle"
    /\ \E d \in 0..(MaxStarvation + 1) :
          /\ scheduler # "Fair" => d = 0
          /\ LET next == next_actor(scheduler, World, list, current_index,
                                    Elapse(last_scheduled, d))
             IN  /\ current_index' = next.current_index
                 /\ last_scheduled' = next.last_scheduled
                 /\ calls' = [list |-> list, picks |-> <<next.actor>>,
                              index |-> current_index]
    /\ UNCHANGED <<worldVars, running, scheduler, runPc, stopCalled, waiting, pushing,
                   popping>>

NextSched ==
    \/ \E k \in SchedulerKinds : SetScheduler(k)
    \/ \E list \in CandidateLists : CallNextActor(list)

SpecSched == InitSched /\ [][NextSched]_vars

----------------------------------------------------------------------------
(* SpecLife: the lifecycle of two actors under every operation that moves    *)
(* it. A driver calls the operations of Actor and register_actor,            *)
(* remove_actor and deliver_message of EventLoop in any order; among the     *)
(* messages are requests, which the handler answers, and messages whose      *)
(* handler calls stop() on its own actor. run() is not started.              *)

Halt(t) == Message("halt", ExternalSender, t, FALSE, NORMAL)

LifeMessages(S) == UNION {{Halt(t)} \cup {Request(x, t) : x \in S \ {t}} : t \in S}

NextLife ==
    \/ \E a \in Pair : Initialize(a)
    \/ \E a \in Pair : Start(a)
    \/ \E a \in Pair : Stop(a)
    \/ \E a \in Pair : StopImmediately(a)
    \/ \E a \in Pair : Receive(a, DirectMessage(a))
    \/ \E a \in Pair : Receive(a, Halt(a))
    \/ \E a \in Pair : ProcessNextMessage(a)
    \/ \E a \in Pair : RegisterActor(a)
    \/ \E a \in Pair : RemoveActor(a)
    \/ \E m \in LifeMessages(Pair) : DeliverMessage(m)

SpecLife == Init /\ [][NextLife]_vars

----------------------------------------------------------------------------
(* Claims checked under Spec *)

\* A queue without the history field.
Content(q) == [i \in 1..Len(q) |-> [q[i] EXCEPT !.serial = 0]]

Unchanged(a) == state'[a] = state[a] /\ message_queue'[a] = message_queue[a]

\* C3: stop() on a RUNNING actor with a non-empty mailbox puts it in STOPPING;
\* a STOPPING actor stays STOPPING as long as messages remain, becomes STOPPED
\* on the process_next_message step that empties the mailbox (and never with
\* messages left), and a STOPPED actor is never moved to another state by any
\* operation.
C3_StopDrainsThenStays ==
    [][\A a \in Pair :
          /\ (Stop(a) /\ state[a] = "RUNNING" /\ message_queue[a] # <<>>)
                => state'[a] = "STOPPING"
          /\ (state[a] = "STOPPING" /\ message_queue'[a] # <<>>)
                => state'[a] = "STOPPING"
          /\ (state[a] = "STOPPING" /\ ProcessNextMessage(a) /\ message_queue'[a] = <<>>)
                => state'[a] = "STOPPED"
          /\ (state[a] = "STOPPING" /\ state'[a] = "STOPPED")
                => message_queue'[a] = <<>>
          /\ state[a] = "STOPPED" => state'[a] = "STOPPED"]_vars

\* C3 witness: an actor stopped while it had messages is down to its last one.
C3_Witness ==
    \E a \in Pair : state[a] = "STOPPING" /\ Len(message_queue[a]) = 1
                    /\ processed[a] > 0

\* C4: deliver_message(m) appends m to the mailbox of the actor registered
\* under m's target id if and only if that actor is registered and RUNNING;
\* otherwise no mailbox, no lifecycle state and no registry entry changes.
C4_DeliverOnlyToRunning ==
    [][\A m \in DriverMessages(Pair) :
          DeliverMessage(m) =>
             LET t == m.target_id
             IN  /\ actors' = actors
                 /\ state' = state
                 /\ \A a \in Actors \ {t} : message_queue'[a] = message_queue[a]
                 /\ t \in Actors =>
                       IF t \in actors /\ state[t] = "RUNNING"
                       THEN Content(message_queue'[t]) = Append(Content(message_queue[t]), m)
                       ELSE message_queue'[t] = message_queue[t]]_vars

\* C4 witness: a registered actor that accepted a delivery while RUNNING is now
\* STOPPING, the other registered actor is RUNNING, and another delivery to
\* either is possible.
C4_Witness ==
    /\ InFlight < MaxMsgs
    /\ \E a, b \in Pair :
          /\ a \in actors /\ b \in actors
          /\ state[a] = "STOPPING"
          /\ \E i \in 1..Len(message_queue[a]) : message_queue[a][i].priority = LOW
          /\ state[b] = "RUNNING"

\* C9 as claimed: remove_actor(id) on a registered actor in any lifecycle state
\* leaves it unregistered, STOPPED and with an empty mailbox; on an id not
\* registered it changes nothing.
C9_RemoveAlwaysStops ==
    [][\A id \in Pair \cup {UnknownId} :
          RemoveActor(id) =>
             IF id \in actors
             THEN id \notin actors' /\ state'[id] = "STOPPED" /\ message_queue'[id] = <<>>
             ELSE UNCHANGED worldVars]_vars

\* C9 amended: remove_actor(id) on a registered actor leaves it unregistered;
\* an actor that was RUNNING is then STOPPED with an empty mailbox, an actor in
\* any other state keeps its state and its mailbox; nothing else changes, and
\* on an id not registered nothing changes at all.
C9_RemoveStopsRunningOnly ==
    [][\A id \in Pair \cup {UnknownId} :
          RemoveActor(id) =>
             IF id \in actors
             THEN /\ actors' = actors \ {id}
                  /\ IF state[id] = "RUNNING"
                     THEN state'[id] = "STOPPED" /\ message_queue'[id] = <<>>
                     ELSE Unchanged(id)
                  /\ \A a \in Actors \ {id} : Unchanged(a)
             ELSE UNCHANGED worldVars]_vars

\* C9 witness: registered actors that remove_actor can be called on, one
\* RUNNING and one STOPPING, both with messages queued.
C9_Witness ==
    \E a, b \in Pair :
        /\ a \in actors /\ state[a] = "RUNNING" /\ message_queue[a] # <<>>
        /\ b \in actors /\ state[b] = "STOPPING" /\ message_queue[b] # <<>>

----------------------------------------------------------------------------
(* Claims checked under SpecRun *)

\* C1: the messages an actor hands to its handlers are in the order in which
\* they were accepted: the message handed on last is the one accepted just
\* before the oldest pending one, and the pending messages are the accepted
\* ones not yet handed on, oldest first, whatever their priorities.
C1_FifoOrder ==
    \A a \in Actors :
        /\ handed[a] = NoSerial => processed[a] = 0
        /\ handed[a] # NoSerial => (handed[a] + 1) % SerialMod = processed[a]
        /\ \A i \in 1..Len(message_queue[a]) :
              message_queue[a][i].serial = (processed[a] + i - 1) % SerialMod

\* C1 witness: an actor that has handled a message holds two more, the newer
\* one of greater priority.
C1_Witness ==
    \E a \in Pair :
        /\ processed[a] > 0
        /\ Len(message_queue[a]) >= 2
        /\ message_queue[a][2].priority > message_queue[a][1].priority
        /\ runPc = "cycle"

----------------------------------------------------------------------------
(* Claims checked under SpecDrain *)

AllQueue(K) == \A a \in actors : Len(message_queue[a]) = K

AllProcessed(K) ==
    \A a \in actors : processed[a] = K /\ message_queue[a] = <<>>

\* C6: with N registered RUNNING actors, K messages queued in each before
\* run() starts and handlers that send nothing, run() with the RoundRobin
\* scheduler returns without any call to stop(), has_work() being false, and
\* every actor has then processed exactly K messages.
C6_DrainsAndReturns ==
    \A K \in 1..MaxK :
        (runPc = "start" /\ AllQueue(K))
            ~> (runPc = "done" /\ ~stopCalled /\ ~has_work(World) /\ AllProcessed(K))

\* C6 witness: run() has returned from a loop over three actors that held two
\* messages each.
C6_Witness ==
    /\ runPc = "done"
    /\ actors = Actors
    /\ \A a \in Actors : processed[a] = 2 /\ accepted[a] = 2

----------------------------------------------------------------------------
(* Claims checked under SpecQuiet *)

Serials == 0..(SerialMod - 1)

\* The message that receive() stamped n is waiting in a's mailbox.
Queued(a, n) ==
    \E i \in 1..Len(message_queue[a]) : message_queue[a][i].serial = n

\* No message in any mailbox is of the type whose handler always sends again;
\* the handlers of the other types send at most one message that is answered
\* by none, so the sending comes to an end.
SendingEnds ==
    \A a \in Actors : \A i \in 1..Len(message_queue[a]) :
        message_queue[a][i].type # "ping"

Conversation(A, B) ==
    /\ runPc = "start"
    /\ A \in actors /\ B \in actors
    /\ state[A] = "RUNNING" /\ state[B] = "RUNNING"
    /\ Content(message_queue[B]) = <<Request(A, B)>>
    /\ message_queue[A] = <<>>
    /\ accepted[A] = 0 /\ processed[A] = 0 /\ processed[B] = 0

\* C7: when a request is delivered to a RUNNING actor B whose handler answers
\* the RUNNING sender A once, and run() drains to quiescence, B has handled one
\* message and A one; and whenever run() has returned from a loop nobody
\* stopped, every actor has handled as many messages as it accepted and holds
\* none.
C7_HandledExactlyOnce ==
    /\ \A A, B \in Pair :
          (A # B /\ Conversation(A, B))
              ~> (/\ runPc = "done"
                  /\ processed[A] = 1 /\ processed[B] = 1
                  /\ accepted[A] = 1 /\ accepted[B] = 1
                  /\ message_queue[A] = <<>> /\ message_queue[B] = <<>>)
    /\ [](runPc = "done" =>
             \A a \in Actors : processed[a] = accepted[a] /\ message_queue[a] = <<>>)

\* C7 witness: run() has returned after B handled a request and A the answer.
C7_Witness ==
    /\ runPc = "done"
    /\ \A a \in Pair : a \in actors /\ processed[a] = 1 /\ accepted[a] = 1
    /\ \E a \in Pair : handed[a] = 0 /\ state[a] = "STOPPED"

\* C10: under the Fair scheduler an actor that stays eligible is eventually
\* selected, however long the cycles take and whoever else is a candidate.
C10_FairSelectsEveryone ==
    \A a \in Pair : \A n \in Serials :
        (scheduler = "Fair" /\ runPc # "idle" /\ Queued(a, n)) ~> (handed[a] = n)

----------------------------------------------------------------------------
(* Claims checked under SpecStop *)

\* C5: once stop() has been called on a loop whose thread has been started,
\* at whatever point of run(), run() returns.
C5_StopEndsRun == stopCalled ~> runPc = "done"

\* C8: no accepted message stays queued for ever: when run() has returned and
\* nothing will call process_next_message again, no actor has a message left.
C8_NothingLeftQueued ==
    runPc = "done" => \A a \in Actors : message_queue[a] = <<>>

----------------------------------------------------------------------------
(* Claims about the schedulers, checked under SpecQuiet *)

\* C11: under the Fair scheduler with threshold MaxStarvation, an actor that is
\* a candidate of every call is never left unselected for longer than the
\* threshold, counted from its last selection or from the first call it was a
\* candidate of.
C11_FairBoundsTheWait ==
    \A a \in Actors : waiting[a] <= MaxStarvation

\* Every element of list occurs exactly once in picks.
EachOnce(list, picks) ==
    /\ Len(picks) = Len(list)
    /\ \A i \in 1..Len(list) :
          Cardinality({j \in 1..Len(picks) : picks[j] = list[i]}) = 1

\* C12: when RoundRobin's next_actor is called again and again with one
\* candidate list of N actors, any N consecutive calls return every candidate
\* exactly once, whatever index earlier calls left in the scheduler.
C12_RoundRobinWindow ==
    (scheduler = "RoundRobin" /\ Len(calls.picks) = Len(calls.list))
        => EachOnce(calls.list, calls.picks)

\* C12 witness: three calls with one list of three candidates have been made
\* by a scheduler whose index did not stand at the first of them.
C12_Witness ==
    /\ scheduler = "RoundRobin"
    /\ Len(calls.list) = 3
    /\ Len(calls.picks) = 3
    /\ calls.picks[1] # calls.list[1]

----------------------------------------------------------------------------
(* Claims checked under SpecPick *)

\* The greatest priority among the messages waiting in a's mailbox.
TopPriority(a) ==
    LET P == {message_queue[a][i].priority : i \in 1..Len(message_queue[a])}
    IN  CHOOSE p \in P : \A q \in P : q <= p

\* The step is a scheduling cycle of a loop that has candidates.
CycleStep == runPc = "cycle" /\ runPc' = "test" /\ active_actors(World) # <<>>

\* The actor the call of next_actor made by the step returned.
Returned == calls'.picks[Len(calls'.picks)]

----------------------------------------------------------------------------
(* Claims about one scheduling cycle, checked under SpecStop *)

\* Actor a's mailbox has lost the message in front and nothing else.
PoppedOne(a) ==
    /\ processed'[a] = (processed[a] + 1) % SerialMod
    /\ handed'[a] = message_queue[a][1].serial

\* C14: one scheduling cycle, when has_work() is true, calls
\* process_next_message once on one actor that is RUNNING or STOPPING with a
\* non-empty mailbox, so that one message is popped over all mailboxes; when
\* has_work() is false it changes no actor's state or mailbox.
C14_OneCycleOnePop ==
    [][(runPc = "cycle" /\ runPc' = "test") =>
          IF has_work(World)
          THEN \E a \in actors :
                  /\ Eligible(World, a)
                  /\ PoppedOne(a)
                  /\ \A b \in Actors \ {a} :
                        processed'[b] = processed[b] /\ handed'[b] = handed[b]
          ELSE UNCHANGED <<state, message_queue, processed, handed>>]_vars

\* C14 witness: the loop is about to run a cycle in which a STOPPING actor
\* and a RUNNING actor, both with messages, are the candidates.
C14_Witness ==
    /\ runPc = "cycle"
    /\ \E a, b \in Pair :
          /\ a \in actors /\ state[a] = "STOPPING" /\ message_queue[a] # <<>>
          /\ b \in actors /\ state[b] = "RUNNING" /\ message_queue[b] # <<>>

----------------------------------------------------------------------------
(* Claims about the operations of Actor, checked under SpecActor *)

\* No actor but a has a changed state or mailbox, and no handler has run.
OnlyTouches(a) ==
    /\ \A b \in Actors \ {a} : Unchanged(b)
    /\ processed' = processed
    /\ handed' = handed

\* C15: stop_immediately() on an actor in any lifecycle state, STOPPED
\* included, leaves it STOPPED with an empty mailbox; the queued messages are
\* discarded, none is handed to a handler.
C15_StopImmediatelyDiscards ==
    [][\A a \in Pair :
          StopImmediately(a) =>
             /\ state'[a] = "STOPPED"
             /\ message_queue'[a] = <<>>
             /\ OnlyTouches(a)]_vars

\* C15 witness: an actor is STOPPED although it accepted more messages than
\* it handed to its handlers.
C15_Witness ==
    \E a \in Pair :
        /\ state[a] = "STOPPED"
        /\ message_queue[a] = <<>>
        /\ processed[a] = 1
        /\ accepted[a] = 2

\* C16: initialize() moves an actor in CREATED to INITIALIZED and start() an
\* actor in INITIALIZED to RUNNING; called in any other state each leaves the
\* state as it is; neither changes a mailbox.
C16_InitializeStartGuards ==
    [][\A a \in Pair :
          /\ Initialize(a) =>
                /\ state'[a] = IF state[a] = "CREATED" THEN "INITIALIZED" ELSE state[a]
                /\ message_queue' = message_queue
                /\ OnlyTouches(a)
          /\ Start(a) =>
                /\ state'[a] = IF state[a] = "INITIALIZED" THEN "RUNNING" ELSE state[a]
                /\ message_queue' = message_queue
                /\ OnlyTouches(a)]_vars

\* C16 witness: one actor is INITIALIZED and can be started, the other is
\* STOPPING with a message, where initialize() and start() must do nothing.
C16_Witness ==
    \E a, b \in Pair :
        /\ state[a] = "INITIALIZED"
        /\ state[b] = "STOPPING" /\ message_queue[b] # <<>>

----------------------------------------------------------------------------
(* Claims about Actor::send, checked under SpecSend *)

\* The message at the back of a's mailbox after the step.
Arrived(a) == message_queue'[a][Len(message_queue'[a])]

\* The step has put one more message into a's mailbox.
Delivers(a) == Len(message_queue'[a]) = Len(message_queue[a]) + 1

\* C18: when actor x calls send(t, m), the message handed to deliver_message
\* has sender_id x and target_id t, whatever sender and target m was built
\* with.
C18_SendSetsSenderAndTarget ==
    [][\A x \in Pair : \A t \in Pair : \A m \in SendMessages(x, t) :
          (Send(x, t, m) /\ Delivers(t)) =>
             Arrived(t).sender_id = x /\ Arrived(t).target_id = t]_vars

\* C19: send(t, m) changes nothing but the sender_id and target_id: the
\* message handed to deliver_message has m's type, payload and priority, also
\* when send rewrites the sender or the target.
C19_SendKeepsTheRest ==
    [][\A x \in Pair : \A t \in Pair : \A m \in SendMessages(x, t) :
          (Send(x, t, m) /\ Delivers(t)) =>
             /\ Arrived(t).type = m.type
             /\ Arrived(t).payload = m.payload
             /\ Arrived(t).priority = m.priority]_vars

----------------------------------------------------------------------------
(* Claims about concurrent access to a mailbox, checked under SpecRace *)

\* C20: an enqueue by deliver_message() on an external thread and a dequeue by
\* process_next_message() on the loop's thread never are inside one actor's
\* mailbox together, and every message accepted is in the mailbox or has been
\* popped, once: a concurrent delivery loses and duplicates nothing.
C20_MailboxAccessExclusive ==
    /\ pushing # NoPush => popping # pushing.actor
    /\ \A a \in Actors :
          pushing.actor # a =>
             accepted[a] = (processed[a] + Len(message_queue[a])) % SerialMod

----------------------------------------------------------------------------
(* Claims about joining and leaving the loop, checked under SpecJoin *)

\* The states of an actor nobody has started.
NotStarted == {"CREATED", "INITIALIZED"}

C22_NoneRunningAfterRun ==
    runPc = "done" => \A a \in actors : state[a] # "RUNNING"

----------------------------------------------------------------------------
(* Claims about RoundRobin inside the loop, checked under SpecTurn *)

\* C23: under RoundRobin inside the loop, where the candidates are collected
\* anew for every cycle, an actor that stays eligible (RUNNING or STOPPING with
\* a message) is eventually selected: its count of messages popped moves on.
C23_RoundRobinServesEveryone ==
    \A a \in Actors : \A k \in Serials :
        (runPc # "idle" /\ Eligible(World, a) /\ processed[a] = k)
            ~> (processed[a] # k)

----------------------------------------------------------------------------
(* Claims about next_actor called on its own, checked under SpecSched *)

\* The actors of a list.
Elements(list) == {list[i] : i \in 1..Len(list)}

\* C24: each of the four schedulers returns nobody exactly when the list it
\* is passed is empty, and otherwise an actor of that list; RoundRobin returns
\* the actor at a place of the list, the one before the place its index is
\* left at, also when the list is shorter than the list of the call before.
C24_NextActorReturnsCandidate ==
    calls.picks # <<>> =>
        LET list == calls.list
            actor == calls.picks[Len(calls.picks)]
        IN  /\ actor = UnknownId <=> list = <<>>
            /\ list # <<>> => actor \in Elements(list)
            /\ (scheduler = "RoundRobin" /\ list # <<>>) =>
                  /\ current_index \in 0..(Len(list) - 1)
                  /\ actor = list[((current_index + Len(list) - 1) % Len(list)) + 1]

\* C24 witness: a RoundRobin scheduler whose index stood at the third place
\* has been called with a list of one actor, and has returned that actor.
C24_Witness ==
    /\ scheduler = "RoundRobin"
    /\ calls.picks # <<>>
    /\ calls.index = 2
    /\ Len(calls.list) = 1
    /\ calls.picks = calls.list

----------------------------------------------------------------------------
(* Claims about the lifecycle of an actor: C25 under SpecRace, C26 and C27 *)
(* under SpecLife                                                          *)

\* C25: between operations, an actor with a message in its mailbox is RUNNING
\* or STOPPING: an actor in CREATED, INITIALIZED or STOPPED has an empty
\* mailbox.
C25_MailboxOnlyWhenAccepting ==
    \A a \in Actors :
        (pushing = NoPush /\ popping = UnknownId /\ message_queue[a] # <<>>)
            => state[a] \in {"RUNNING", "STOPPING"}

\* C26: between operations, an actor in STOPPING has a message in its mailbox:
\* stop() and process_next_message() take an actor whose mailbox is empty on to
\* STOPPED within the call, also when it is a handler that calls stop() on its
\* own actor.
C26_StoppingHasMessages ==
    /\ [](\A a \in Actors : state[a] = "STOPPING" => message_queue[a] # <<>>)
    /\ [][\A a \in Pair :
             (/\ ProcessNextMessage(a)
              /\ state[a] = "RUNNING"
              /\ message_queue[a] # <<>>
              /\ message_queue[a][1].type = "halt")
                 => state'[a] = IF Len(message_queue[a]) = 1 THEN "STOPPED"
                                ELSE "STOPPING"]_vars

\* C26 witness: an actor that has handled a message is STOPPING with one left,
\* while the other, RUNNING, holds nothing but a message whose handler will
\* call stop().
C26_Witness ==
    \E a, b \in Pair :
        /\ state[a] = "STOPPING" /\ Len(message_queue[a]) = 1 /\ processed[a] > 0
        /\ state[b] = "RUNNING" /\ Content(message_queue[b]) = <<Halt(b)>>

\* The place of a state in Actor::State.
StateRank(s) ==
    CASE s = "CREATED" -> 0
      [] s = "INITIALIZED" -> 1
      [] s = "RUNNING" -> 2
      [] s = "STOPPING" -> 3
      [] s = "STOPPED" -> 4

\* C27: no operation moves an actor's state backwards in the order CREATED,
\* INITIALIZED, RUNNING, STOPPING, STOPPED.
C27_StateNeverMovesBack ==
    [][\A a \in Actors : StateRank(state'[a]) >= StateRank(state[a])]_vars

\* C27 witness: one actor has gone all the way to STOPPED and has handled a
\* message on the way, the other is STOPPING.
C27_Witness ==
    \E a, b \in Pair :
        /\ state[a] = "STOPPED" /\ processed[a] > 0
        /\ state[b] = "STOPPING"

====
